---- MODULE Spec2Model ----
(***************************************************************************)
(* A model of src/core/security.py: the SecurityManager class (AES-256-GCM *)
(* encryption, HMAC-SHA256 integrity tags, RSA-PSS signatures).            *)
(*                                                                         *)
(* Byte strings.  A Python bytes value is a sequence of chunks.  A chunk   *)
(* is either a run of literal bytes (kind "raw", the bytes in .raw; kind   *)
(* "fill", .len copies of the byte in .raw) or the output of a             *)
(* cryptographic primitive, kept as the term that produced it (kind, key,  *)
(* nonce, data) together with its length in bytes.  .flip is the position  *)
(* of a bit that was inverted afterwards (0: none).  Two                   *)
(* primitive outputs are equal exactly when they were computed from equal  *)
(* inputs, and no primitive output equals a literal run: the usual         *)
(* idealisation of AES, SHA-256 and RSA (no collisions, no forgeries).     *)
(* Concatenation of bytes is \o, b"" is << >>.                             *)
(***************************************************************************)
EXTENDS Integers, Sequences

VARIABLES
    ctx,        \* the SecurityManager objects: ctx[c].secret_key, ctx[c].hmac_key
    sealed,     \* what encrypt_data calls returned (and the encryptor's tag)
    tags,       \* what generate_hmac calls returned
    keypairs,   \* what generate_rsa_keypair calls returned
    sigs,       \* what sign_data calls returned
    last,       \* the most recent call: its arguments and its outcome
    noted,      \* an earlier call the caller remembers, to compare a repeat with
    thread,     \* the calls in progress on threads: position, arguments, result
    frames,     \* the local variables of those calls (h, cipher/encryptor)
    mon,        \* monitoring.py: the class attributes, the instance attributes, the locks
    mthr,       \* monitoring.py: the threads that use Monitoring, and its monitor thread
    macc,       \* monitoring.py: what an observer of the instance has seen so far
    corr,       \* logging.py: the correlation_id attribute of _thread_local, per thread
    llast,      \* logging.py: the most recent call of a correlation-ID function
    models,     \* model_inference.py: the rows of the table model_metadata
    requests,   \* model_inference.py: the rows of the table inference_request
    ilast,      \* model_inference.py: the most recent call of the service
    pipe,       \* data_pipeline.py: the run_pipeline call in progress, and the destination file
    cli         \* cli/main.py: the command handler in progress, what it logged and printed

secvars == <<ctx, sealed, tags, keypairs, sigs, last, noted, thread, frames>>

monvars == <<mon, mthr, macc>>

logvars == <<corr, llast>>

infvars == <<models, requests, ilast>>

pipevars == <<pipe>>

clivars == <<cli>>

vars == <<secvars, monvars, logvars, infvars, pipevars, clivars>>

\* the variables of the other modules, which security.py does not touch
notsec == <<monvars, logvars, infvars, pipevars, clivars>>

\* the variables of the other modules, which monitoring.py does not touch
notmon == <<secvars, logvars, infvars, pipevars, clivars>>

\* the variables of the other modules, which logging.py does not touch
notlog == <<secvars, monvars, infvars, pipevars, clivars>>

\* the variables of the other modules, which model_inference.py does not touch
notinf == <<secvars, monvars, logvars, pipevars, clivars>>

\* the variables of the other modules, which data_pipeline.py does not touch
notpipe == <<secvars, monvars, logvars, infvars, clivars>>

\* the variables of the other modules, which cli/main.py does not touch
notcli == <<secvars, monvars, logvars, infvars, pipevars>>

(***************************************************************************)
(* Program constants.                                                      *)
(***************************************************************************)
AES_KEY_SIZE == 32
AES_BLOCK_SIZE == 16
HMAC_KEY_SIZE == 32
RSA_KEY_SIZE == 2048
SHA256_DIGEST_SIZE == 32
GCM_TAG_SIZE == 16

(***************************************************************************)
(* Bounds of the model.                                                    *)
(***************************************************************************)
MaxLen == 2     \* longest plaintext / data, in bytes
MaxRand == 1    \* os.urandom draws a run of one byte value out of 0..MaxRand

(***************************************************************************)
(* Byte strings.                                                           *)
(***************************************************************************)
Chunk(kind, key, nonce, data, raw, len) ==
    [kind |-> kind, key |-> key, nonce |-> nonce, data |-> data,
     raw |-> raw, len |-> len, flip |-> 0]

Raw(s) == IF s = << >> THEN << >> ELSE << Chunk("raw", << >>, << >>, << >>, s, Len(s)) >>

\* n copies of byte b: the keys and nonces of the model
Fill(n, b) == IF n = 0 THEN << >> ELSE << Chunk("fill", << >>, << >>, << >>, <<b>>, n) >>

RECURSIVE BLen(_)
BLen(b) == IF b = << >> THEN 0 ELSE Head(b).len + BLen(Tail(b))

\* b[:n] for a byte string of one chunk
Truncate(b, n) ==
    IF n <= 0 \/ b = << >> THEN << >>
    ELSE IF n >= b[1].len THEN b
    ELSE IF b[1].kind = "raw"
         THEN Raw(SubSeq(b[1].raw, 1, n))
         ELSE << [b[1] EXCEPT !.len = n,
                              !.flip = IF @ > 8 * n THEN 0 ELSE @] >>

\* one byte with bit j (0..7) inverted
FlipByte(v, j) == IF (v \div (2 ^ j)) % 2 = 1 THEN v - 2 ^ j ELSE v + 2 ^ j

\* a byte string of one chunk with bit p (1..8*len) inverted
FlipBit(b, p) ==
    IF b = << >> THEN << >>
    ELSE IF b[1].kind = "raw"
         THEN LET i == ((p - 1) \div 8) + 1
                  j == (p - 1) % 8
              IN  << [b[1] EXCEPT !.raw[i] = FlipByte(@, j)] >>
         ELSE << [b[1] EXCEPT !.flip = IF @ = p THEN 0 ELSE p] >>

\* the first and the last bit of a byte string
BitPositions(b) == IF BLen(b) = 0 THEN {} ELSE {1, 8 * BLen(b)}

\* byte strings that differ from b in one bit
SingleBitFlips(b) == { FlipBit(b, p) : p \in BitPositions(b) }

\* os.urandom(n)
urandom(n) == { Fill(n, b) : b \in 0..MaxRand }

(***************************************************************************)
(* The inputs callers supply.                                              *)
(***************************************************************************)
CtxId == {"a", "b"}

\* b"", b"H", b"H ", b"H  ", ...
Data == { Raw([i \in 1..n |-> IF i = 1 THEN 72 ELSE 32]) : n \in 0..MaxLen }

\* keys of 32 bytes (32 zero bytes, 32 one bytes), of 31 and of 33 bytes
KeyInputs ==
    { Fill(AES_KEY_SIZE, 0), Fill(AES_KEY_SIZE, 1),
      Fill(AES_KEY_SIZE - 1, 0), Fill(AES_KEY_SIZE + 1, 0) }

NoCtx == [alive |-> FALSE, secret_key |-> << >>, hmac_key |-> << >>]

NoCall ==
    [op |-> "none", ctx |-> "-", data |-> << >>, arg1 |-> << >>, arg2 |-> << >>,
     exc |-> "", ret |-> "None", out |-> << >>]

Call(op, c, data, arg1, arg2, exc, ret, out) ==
    [op |-> op, ctx |-> c, data |-> data, arg1 |-> arg1, arg2 |-> arg2,
     exc |-> exc, ret |-> ret, out |-> out]

Held(c, data, out1, out2, aux) ==
    [ctx |-> c, data |-> data, out1 |-> out1, out2 |-> out2, aux |-> aux]

\* the caller keeps the latest result of each kind
Keep(store, x) == {x}

(***************************************************************************)
(* SecurityManager.__init__                                                *)
(***************************************************************************)
SecurityManager__init__lt(secret_key, rnd) ==
    IF BLen(secret_key) < AES_KEY_SIZE
    THEN [exc |-> "ValueError", self |-> NoCtx]
    ELSE [exc |-> "",
          self |-> [alive |-> TRUE, secret_key |-> secret_key, hmac_key |-> rnd]]

SecurityManager__init__derived(secret_key, rnd) ==
    IF BLen(secret_key) # AES_KEY_SIZE
    THEN [exc |-> "ValueError", self |-> NoCtx]
    ELSE [exc |-> "",
          self |-> [alive |-> TRUE, secret_key |-> secret_key, hmac_key |-> secret_key]]

\* rnd is the value os.urandom(HMAC_KEY_SIZE) returns when it is called
SecurityManager__init__(secret_key, rnd) ==
    IF BLen(secret_key) # AES_KEY_SIZE
    THEN [exc |-> "ValueError", self |-> NoCtx]
    ELSE [exc |-> "",
          self |-> [alive |-> TRUE, secret_key |-> secret_key, hmac_key |-> rnd]]

\* the call records the key given and, when os.urandom was reached, its draw
ConstructIn(C) ==
    \E c \in C, k \in KeyInputs, rnd \in urandom(HMAC_KEY_SIZE) :
        /\ ~ctx[c].alive
        /\ LET r == SecurityManager__init__(k, rnd)
           IN  /\ ctx' = [ctx EXCEPT ![c] = r.self]
               /\ last' = Call("__init__", c, << >>, k,
                                IF r.exc = "" THEN rnd ELSE << >>, r.exc, "None", << >>)
        /\ UNCHANGED <<sealed, tags, keypairs, sigs, noted, thread, frames, notsec>>

Construct == ConstructIn(CtxId)

(***************************************************************************)
(* Integrity engine: generate_hmac, verify_hmac                            *)
(***************************************************************************)
\* hmac.HMAC(key, hashes.SHA256()); h.update(data); h.finalize()
HMAC_SHA256(key, data) ==
    << Chunk("hmac_sha256", key, << >>, data, << >>, SHA256_DIGEST_SIZE) >>

\* constant_time.bytes_eq
bytes_eq(a, b) == a = b

\* a comparison that stops at the first byte in which b differs from a
bytes_eq_work_shortcircuit(a, b) ==
    IF a = b THEN BLen(b)
    ELSE IF /\ Len(a) = 1
            /\ Len(b) = 1
            /\ b[1].flip # 0
            /\ [b[1] EXCEPT !.flip = 0] = a[1]
         THEN ((b[1].flip - 1) \div 8) + 1
         ELSE 1

\* the bytes constant_time.bytes_eq(a, b) reads: hmac.compare_digest goes over
\* every byte of b, whatever a holds and wherever the two differ
bytes_eq_work(a, b) == BLen(b)

\* h.verify(signature): raises InvalidSignature unless the tag is the digest
HMAC_verify(key, data, signature) ==
    IF bytes_eq(HMAC_SHA256(key, data), signature) THEN "" ELSE "InvalidSignature"

generate_hmac(self, data) == HMAC_SHA256(self.hmac_key, data)

verify_hmac_noupdate(self, data, hmac_value) ==
    LET raised == HMAC_verify(self.hmac_key, << >>, hmac_value)
    IN  IF raised = "" THEN [exc |-> "", ret |-> "True"]
        ELSE [exc |-> "", ret |-> "False"]

verify_hmac_secretkey(self, data, hmac_value) ==
    LET raised == HMAC_verify(self.secret_key, data, hmac_value)
    IN  IF raised = "" THEN [exc |-> "", ret |-> "True"]
        ELSE [exc |-> "", ret |-> "False"]

verify_hmac_notry(self, data, hmac_value) ==
    LET raised == HMAC_verify(self.hmac_key, data, hmac_value)
    IN  IF raised = "" THEN [exc |-> "", ret |-> "True"]
        ELSE [exc |-> raised, ret |-> "None"]

\* the try/except around h.verify turns every exception into False
verify_hmac(self, data, hmac_value) ==
    LET raised == HMAC_verify(self.hmac_key, data, hmac_value)
    IN  IF raised = "" THEN [exc |-> "", ret |-> "True"]
        ELSE [exc |-> "", ret |-> "False"]

GenerateHmac ==
    \E c \in CtxId, d \in Data :
        /\ ctx[c].alive
        /\ LET t == generate_hmac(ctx[c], d)
           IN  /\ tags' = Keep(tags, Held(c, d, t, << >>, << >>))
               /\ last' = Call("generate_hmac", c, d, << >>, << >>, "", "None", t)
        /\ UNCHANGED <<ctx, sealed, keypairs, sigs, noted, thread, frames, notsec>>

\* the tags a caller may hand to verify_hmac: one it was given, one cut short
\* or empty, one with a byte appended, one with a bit of its first or of its
\* last byte inverted, a run of zero bytes
TagInputs ==
    UNION { { t.out1,
              Truncate(t.out1, SHA256_DIGEST_SIZE - 1),
              t.out1 \o Raw(<<0>>) } \cup SingleBitFlips(t.out1) : t \in tags }
    \cup { << >>, Fill(SHA256_DIGEST_SIZE, 0) }

\* verify_hmac with a tag that is spent once it has been accepted
VerifyHmacOnce ==
    \E c \in CtxId, d \in Data, t \in TagInputs :
        /\ ctx[c].alive
        /\ LET r == verify_hmac(ctx[c], d, t)
               spent == last.op = "verify_hmac" /\ last.arg1 = t /\ last.ret = "True"
           IN  last' = [op |-> "verify_hmac", ctx |-> c, data |-> d, arg1 |-> t,
                        arg2 |-> << >>, exc |-> r.exc,
                        ret |-> IF spent THEN "False" ELSE r.ret, out |-> << >>,
                        work |-> bytes_eq_work(HMAC_SHA256(ctx[c].hmac_key, d), t)]
        /\ UNCHANGED <<ctx, sealed, tags, keypairs, sigs, noted, thread, frames, notsec>>

\* the call records, besides its outcome, the bytes h.verify compared
VerifyHmac ==
    \E c \in CtxId, d \in Data, t \in TagInputs :
        /\ ctx[c].alive
        /\ LET r == verify_hmac(ctx[c], d, t)
               h == HMAC_SHA256(ctx[c].hmac_key, d)
           IN  last' = [op |-> "verify_hmac", ctx |-> c, data |-> d, arg1 |-> t,
                        arg2 |-> << >>, exc |-> r.exc, ret |-> r.ret, out |-> << >>,
                        work |-> bytes_eq_work(h, t)]
        /\ UNCHANGED <<ctx, sealed, tags, keypairs, sigs, noted, thread, frames, notsec>>

(***************************************************************************)
(* Symmetric engine: encrypt_data, decrypt_data                            *)
(***************************************************************************)
\* AES in counter mode, the cipher under GCM: the input XOR the keystream of
\* (key, nonce).  Applied twice with one key and nonce it returns the input;
\* a bit inverted in between comes out inverted.
AES_CTR(key, nonce, input) ==
    IF input = << >> THEN << >>
    ELSE IF /\ Len(input) = 1
            /\ input[1].kind = "aes_ctr"
            /\ input[1].key = key
            /\ input[1].nonce = nonce
            /\ input[1].len = BLen(input[1].data)
         THEN IF input[1].flip = 0 THEN input[1].data
              ELSE FlipBit(input[1].data, input[1].flip)
         ELSE << Chunk("aes_ctr", key, nonce, input, << >>, BLen(input)) >>

\* the GCM authentication tag over the ciphertext
GCM_tag(key, nonce, ciphertext) ==
    << Chunk("gcm_tag", key, nonce, ciphertext, << >>, GCM_TAG_SIZE) >>

\* modes.GCM(nonce): the mode object carries no tag
NoTag == << Chunk("None", << >>, << >>, << >>, << >>, 0) >>

\* decryptor.finalize(): refuses to finish without a tag, else checks it
GCM_decryptor_finalize(key, nonce, tag, ciphertext) ==
    IF tag = NoTag THEN "ValueError"
    ELSE IF bytes_eq(tag, GCM_tag(key, nonce, ciphertext)) THEN ""
    ELSE "InvalidTag"

\* nonce is the value os.urandom(AES_BLOCK_SIZE) returns.  encryptor.update
\* returns the counter-mode bytes, encryptor.finalize() returns b"" and leaves
\* the tag in encryptor.tag, which the method does not read.
encrypt_data(self, plaintext, nonce) ==
    LET updated == AES_CTR(self.secret_key, nonce, plaintext)
        finalized == << >>
    IN  [ciphertext |-> updated \o finalized,
         nonce |-> nonce,
         encryptor_tag |-> GCM_tag(self.secret_key, nonce, updated)]

decrypt_data(self, ciphertext, nonce) ==
    LET updated == AES_CTR(self.secret_key, nonce, ciphertext)
        raised == GCM_decryptor_finalize(self.secret_key, nonce, NoTag, ciphertext)
    IN  IF raised # "" THEN [exc |-> raised, out |-> << >>]
        ELSE [exc |-> "", out |-> updated]

EncryptData ==
    \E c \in CtxId, p \in Data, n \in urandom(AES_BLOCK_SIZE) :
        /\ ctx[c].alive
        /\ LET r == encrypt_data(ctx[c], p, n)
           IN  /\ sealed' = Keep(sealed, Held(c, p, r.ciphertext, r.nonce, r.encryptor_tag))
               /\ last' = Call("encrypt_data", c, p, << >>, << >>, "", "None", r.ciphertext)
        /\ UNCHANGED <<ctx, tags, keypairs, sigs, noted, thread, frames, notsec>>

\* the (ciphertext, nonce) pairs a caller may hand to decrypt_data: a sealed
\* message as returned, or with one bit of the ciphertext or nonce inverted
SealedInputs ==
    UNION { { <<m.out1, m.out2>> }
            \cup { <<x, m.out2>> : x \in SingleBitFlips(m.out1) }
            \cup { <<m.out1, y>> : y \in SingleBitFlips(m.out2) } : m \in sealed }

\* decrypt_data that keeps the nonce it was given as its key
DecryptDataRekey ==
    \E c \in CtxId, m \in SealedInputs :
        /\ ctx[c].alive
        /\ LET r == decrypt_data(ctx[c], m[1], m[2])
           IN  last' = Call("decrypt_data", c, << >>, m[1], m[2], r.exc, "None", r.out)
        /\ ctx' = [ctx EXCEPT ![c].secret_key = m[2]]
        /\ UNCHANGED <<sealed, tags, keypairs, sigs, noted, thread, frames, notsec>>

DecryptData ==
    \E c \in CtxId, m \in SealedInputs :
        /\ ctx[c].alive
        /\ LET r == decrypt_data(ctx[c], m[1], m[2])
           IN  last' = Call("decrypt_data", c, << >>, m[1], m[2], r.exc, "None", r.out)
        /\ UNCHANGED <<ctx, sealed, tags, keypairs, sigs, noted, thread, frames, notsec>>

(***************************************************************************)
(* Asymmetric engine: generate_rsa_keypair, sign_data, verify_signature    *)
(***************************************************************************)
\* the key material rsa.generate_private_key may draw
RSAKeys == urandom(RSA_KEY_SIZE \div 8)

\* private_key.private_bytes(PEM, PKCS8, NoEncryption())
private_bytes(key) == << Chunk("pem_pkcs8_private", key, << >>, << >>, << >>, BLen(key)) >>

\* private_key.public_key().public_bytes(PEM, SubjectPublicKeyInfo)
public_bytes(key) == << Chunk("pem_spki_public", key, << >>, << >>, << >>, BLen(key)) >>

LoadPem(pem, kind) ==
    IF /\ Len(pem) = 1
       /\ pem[1].kind = kind
       /\ pem[1].flip = 0
       /\ pem[1].len = BLen(pem[1].key)
    THEN [exc |-> "", key |-> pem[1].key]
    ELSE [exc |-> "ValueError", key |-> << >>]

load_pem_private_key(pem) == LoadPem(pem, "pem_pkcs8_private")

load_pem_public_key(pem) == LoadPem(pem, "pem_spki_public")

\* padding.PSS.MAX_LENGTH: the modulus length less the digest length less 2
PSS_MAX_LENGTH == (RSA_KEY_SIZE \div 8) - SHA256_DIGEST_SIZE - 2

\* private_key.sign(data, PSS(MGF1(SHA256), salt), SHA256)
RSA_sign(key, data, scheme, salt) ==
    << Chunk(scheme, key, salt, data, << >>, RSA_KEY_SIZE \div 8) >>

\* public_key.verify(signature, data, PSS(...), SHA256): raises
\* InvalidSignature unless the signature is one of the key over the data
RSA_verify(key, signature, data, scheme) ==
    IF /\ Len(signature) = 1
       /\ signature[1].kind = scheme
       /\ signature[1].key = key
       /\ signature[1].data = data
       /\ signature[1].flip = 0
       /\ signature[1].len = RSA_KEY_SIZE \div 8
       /\ BLen(signature[1].nonce) = PSS_MAX_LENGTH
    THEN "" ELSE "InvalidSignature"

\* rnd is the key rsa.generate_private_key draws
generate_rsa_keypair(rnd) ==
    [private_pem |-> private_bytes(rnd), public_pem |-> public_bytes(rnd)]

sign_data_pkcs1(private_key_pem, data, salt) ==
    LET k == load_pem_private_key(private_key_pem)
    IN  IF k.exc # "" THEN [exc |-> k.exc, out |-> << >>]
        ELSE [exc |-> "", out |-> RSA_sign(k.key, data, "rsa_pkcs1v15_sha256", << >>)]

\* salt is the PSS salt the signing draws
sign_data(private_key_pem, data, salt) ==
    LET k == load_pem_private_key(private_key_pem)
    IN  IF k.exc # "" THEN [exc |-> k.exc, out |-> << >>]
        ELSE [exc |-> "", out |-> RSA_sign(k.key, data, "rsa_pss_sha256", salt)]

verify_signature_nodata(public_key_pem, data, signature) ==
    LET k == load_pem_public_key(public_key_pem)
    IN  IF k.exc # "" THEN [exc |-> k.exc, ret |-> "None"]
        ELSE IF /\ Len(signature) = 1
                /\ RSA_verify(k.key, signature, signature[1].data, "rsa_pss_sha256") = ""
             THEN [exc |-> "", ret |-> "True"]
             ELSE [exc |-> "", ret |-> "False"]

verify_signature_notry(public_key_pem, data, signature) ==
    LET k == load_pem_public_key(public_key_pem)
        raised == RSA_verify(k.key, signature, data, "rsa_pss_sha256")
    IN  IF k.exc # "" THEN [exc |-> k.exc, ret |-> "None"]
        ELSE IF raised = "" THEN [exc |-> "", ret |-> "True"]
        ELSE [exc |-> raised, ret |-> "None"]

verify_signature_loadintry(public_key_pem, data, signature) ==
    LET k == load_pem_public_key(public_key_pem)
    IN  IF k.exc # "" THEN [exc |-> "", ret |-> "False"]
        ELSE IF RSA_verify(k.key, signature, data, "rsa_pss_sha256") = ""
             THEN [exc |-> "", ret |-> "True"]
             ELSE [exc |-> "", ret |-> "False"]

\* load_pem_public_key is called before the try: what it raises propagates;
\* the try/except around public_key.verify turns every exception into False
verify_signature(public_key_pem, data, signature) ==
    LET k == load_pem_public_key(public_key_pem)
    IN  IF k.exc # "" THEN [exc |-> k.exc, ret |-> "None"]
        ELSE IF RSA_verify(k.key, signature, data, "rsa_pss_sha256") = ""
             THEN [exc |-> "", ret |-> "True"]
             ELSE [exc |-> "", ret |-> "False"]

GenerateRsaKeypair ==
    \E c \in CtxId, rnd \in RSAKeys :
        /\ ctx[c].alive
        /\ LET r == generate_rsa_keypair(rnd)
           IN  /\ keypairs' = Keep(keypairs, Held("-", << >>, r.private_pem, r.public_pem, << >>))
               /\ last' = Call("generate_rsa_keypair", c, << >>, << >>, << >>, "", "None",
                               r.private_pem)
        /\ UNCHANGED <<ctx, sealed, tags, sigs, noted, thread, frames, notsec>>

\* the PEM bytes a caller may hand over as a key: either half of a key pair
\* it generated, or bytes that are no PEM
PemInputs ==
    UNION { {kp.out1, kp.out2} : kp \in keypairs } \cup { Raw(<<72>>) }

SignData ==
    \E c \in CtxId, pem \in PemInputs, d \in Data, salt \in urandom(PSS_MAX_LENGTH) :
        /\ ctx[c].alive
        /\ LET r == sign_data(pem, d, salt)
           IN  /\ sigs' = IF r.exc = "" THEN Keep(sigs, Held("-", d, r.out, << >>, pem))
                         ELSE sigs
               /\ last' = Call("sign_data", c, d, pem, << >>, r.exc, "None", r.out)
        /\ UNCHANGED <<ctx, sealed, tags, keypairs, noted, thread, frames, notsec>>

\* the signatures a caller may hand to verify_signature: one it was given,
\* one cut short, one with a bit inverted, the empty one
SigInputs ==
    UNION { { s.out1,
              Truncate(s.out1, (RSA_KEY_SIZE \div 8) - 1),
              FlipBit(s.out1, 1) } : s \in sigs }
    \cup { << >> }

VerifySignature ==
    \E c \in CtxId, pem \in PemInputs, d \in Data, s \in SigInputs :
        /\ ctx[c].alive
        /\ LET r == verify_signature(pem, d, s)
           IN  last' = Call("verify_signature", c, d, pem, s, r.exc, r.ret, << >>)
        /\ UNCHANGED <<ctx, sealed, tags, keypairs, sigs, noted, thread, frames, notsec>>

(***************************************************************************)
(* Calls of generate_hmac and verify_hmac in progress on several threads   *)
(* of one process.  A thread may be switched out between any two           *)
(* statements of a method: h = hmac.HMAC(self.hmac_key, ...), then         *)
(* h.update(data), then h.finalize() or h.verify(hmac_value).              *)
(***************************************************************************)
Threads == {"t1", "t2"}

\* a thread outside any call
Idle == [pc |-> "idle", call |-> NoCall]

\* no HMAC object
NoFrame == [key |-> << >>, buf |-> << >>]

SharedObject(t) == "self"

\* h is a local variable of the method: every call in progress has its own
LocalObject(t) == t

\* a thread calls generate_hmac(data) or verify_hmac(data, hmac_value)
ThreadCall(t) ==
    \E c \in {"a"}, d \in Data :
        /\ thread[t].pc = "idle"
        /\ ctx[c].alive
        /\ \/ thread' = [thread EXCEPT ![t] =
                   [pc |-> "new",
                    call |-> Call("generate_hmac", c, d, << >>, << >>, "", "None", << >>)]]
           \/ \E v \in TagInputs :
                  thread' = [thread EXCEPT ![t] =
                      [pc |-> "new",
                       call |-> Call("verify_hmac", c, d, v, << >>, "", "None", << >>)]]
        /\ UNCHANGED <<ctx, sealed, tags, keypairs, sigs, last, noted, frames, notsec>>

\* h = hmac.HMAC(self.hmac_key, hashes.SHA256(), backend=default_backend())
ThreadNew(t) ==
    /\ thread[t].pc = "new"
    /\ frames' = [frames EXCEPT ![LocalObject(t)] =
                      [key |-> ctx[thread[t].call.ctx].hmac_key, buf |-> << >>]]
    /\ thread' = [thread EXCEPT ![t].pc = "update"]
    /\ UNCHANGED <<ctx, sealed, tags, keypairs, sigs, last, noted, notsec>>

\* h.update(data)
ThreadUpdate(t) ==
    /\ thread[t].pc = "update"
    /\ frames' = [frames EXCEPT ![LocalObject(t)].buf = @ \o thread[t].call.data]
    /\ thread' = [thread EXCEPT ![t].pc = "finalize"]
    /\ UNCHANGED <<ctx, sealed, tags, keypairs, sigs, last, noted, notsec>>

\* return h.finalize(), or h.verify(hmac_value) under the try/except
ThreadFinalize(t) ==
    /\ thread[t].pc = "finalize"
    /\ LET h == frames[LocalObject(t)]
           raised == HMAC_verify(h.key, h.buf, thread[t].call.arg1)
       IN  thread' = [thread EXCEPT
               ![t].pc = "done",
               ![t].call.out = IF thread[t].call.op = "generate_hmac"
                               THEN HMAC_SHA256(h.key, h.buf) ELSE << >>,
               ![t].call.ret = IF thread[t].call.op = "generate_hmac" THEN "None"
                               ELSE IF raised = "" THEN "True" ELSE "False"]
    /\ UNCHANGED <<ctx, sealed, tags, keypairs, sigs, last, noted, frames, notsec>>

\* the call returns to its caller, which keeps a tag it was given; the local
\* variable goes out of scope
ThreadReturn(t) ==
    /\ thread[t].pc = "done"
    /\ thread' = [thread EXCEPT ![t] = Idle]
    /\ frames' = [frames EXCEPT ![LocalObject(t)] = NoFrame]
    /\ tags' = IF thread[t].call.op = "generate_hmac"
               THEN Keep(tags, Held(thread[t].call.ctx, thread[t].call.data,
                                    thread[t].call.out, << >>, << >>))
               ELSE tags
    /\ UNCHANGED <<ctx, sealed, keypairs, sigs, last, noted, notsec>>

(***************************************************************************)
(* The caller of the object                                                *)
(***************************************************************************)
\* The caller drops its last reference to the object.  The class defines no
\* __del__, no close and no context-manager exit, so no code of the class
\* runs: the bytes objects of the two keys are left as they are (secret_key
\* is the caller's own object, which __init__ stored without copying it).
Release ==
    \E c \in CtxId :
        /\ ctx[c].alive
        /\ ctx' = [ctx EXCEPT ![c].alive = FALSE]
        /\ last' = Call("del", c, << >>, << >>, << >>, "", "None", << >>)
        /\ UNCHANGED <<sealed, tags, keypairs, sigs, noted, thread, frames, notsec>>

\* the caller drops the results it holds and the call it remembers
Forget ==
    /\ sealed \cup tags \cup keypairs \cup sigs # {}
    /\ sealed' = {}
    /\ tags' = {}
    /\ keypairs' = {}
    /\ sigs' = {}
    /\ noted' = NoCall
    /\ UNCHANGED <<ctx, last, thread, frames, notsec>>

\* the operations whose result is a function of the object and the arguments
Deterministic == {"generate_hmac", "verify_hmac", "decrypt_data", "verify_signature"}

\* the last call made a tag, or checked a tag, a sealed message or a
\* signature that the caller still holds, given as it was made, with the
\* data and the key it was made for
OfHeld ==
    \/ last.op = "generate_hmac"
    \/ /\ last.op = "verify_hmac"
       /\ \E t \in tags : t.ctx = last.ctx /\ t.out1 = last.arg1 /\ t.data = last.data
    \/ /\ last.op = "decrypt_data"
       /\ \E m \in sealed : m.ctx = last.ctx /\ m.out1 = last.arg1 /\ m.out2 = last.arg2
    \/ /\ last.op = "verify_signature"
       /\ \E g \in sigs :
              /\ g.out1 = last.arg2
              /\ g.data = last.data
              /\ load_pem_public_key(last.arg1).exc = ""
              /\ load_pem_public_key(last.arg1).key = load_pem_private_key(g.aux).key

\* the caller remembers such a call and its outcome
Note ==
    /\ last.op \in Deterministic
    /\ OfHeld
    /\ noted # last
    /\ noted' = last
    /\ UNCHANGED <<ctx, sealed, tags, keypairs, sigs, last, thread, frames, notsec>>

(***************************************************************************)
(* monitoring.py: MonitoringSingleton.__new__, Monitoring.__init__,        *)
(* log_performance_metrics, monitor_system_health, start_monitoring.       *)
(* A thread may be switched out between any two statements.                *)
(***************************************************************************)
\* the threads of the program that use Monitoring
MonUsers == {"u1", "u2"}

\* the thread start_monitoring starts (target=monitor)
MonitorThread == "bg"

\* the MonitoringConfig objects handed to Monitoring(config)
Configs == {"config1", "config2"}

\* metrics dictionaries: the empty one (falsy) and one with entries
Metrics == {"{}", "metrics"}

\* a field of a record is given a value
Put(r, field, value) == [r EXCEPT ![field] = value]

\* a thread outside any call; ref is the instance its last Monitoring(...)
\* returned, held the lock object its with statement has acquired
MonIdle ==
    [pc |-> "idle", arg |-> "None", ref |-> "None", held |-> "None"]

MonInit ==
    /\ mon = [_instance |-> "None",
              _instance_lock |-> "free",
              attrs |-> [config |-> "unset", _initialized |-> "unset",
                         _lock |-> "unset", _last_metrics |-> "unset",
                         _last_drift_check |-> "unset",
                         _last_health_check |-> "unset"],
              locks |-> [l \in MonUsers |-> "free"]]
    /\ mthr = [t \in MonUsers \cup {MonitorThread} |->
                  IF t = MonitorThread THEN Put(MonIdle, "pc", "off") ELSE MonIdle]
    /\ macc = [inits |-> 0, first_config |-> "None", instances |-> {}, unlocked |-> {}]

\* thread t holds the lock the instance has as _lock at this moment
HoldsInstanceLock(t) ==
    /\ mon.attrs._lock # "unset"
    /\ mon.locks[mon.attrs._lock] = t

\* an observer sees thread t read or write a shared field of the instance,
\* and keeps the names of the fields it saw accessed without the lock
Access(t, field) ==
    IF HoldsInstanceLock(t) THEN macc
    ELSE [macc EXCEPT !.unlocked = @ \cup {field}]

\* Monitoring(config) is called
MonConstruct(t) ==
    \E c \in Configs :
        /\ mthr[t].pc = "idle"
        /\ mthr' = [mthr EXCEPT ![t].pc = "new_acquire", ![t].arg = c]
        /\ UNCHANGED <<mon, macc, notmon>>

\* __new__: with cls._instance_lock:
NewAcquire(t) ==
    /\ mthr[t].pc = "new_acquire"
    /\ mon._instance_lock = "free"
    /\ mon' = [mon EXCEPT !._instance_lock = t]
    /\ mthr' = [mthr EXCEPT ![t].pc = "new_check"]
    /\ UNCHANGED <<macc, notmon>>

\* __new__: if not cls._instance: cls._instance = super().__new__(cls)
NewCheck(t) ==
    /\ mthr[t].pc = "new_check"
    /\ mon' = IF mon._instance = "None" THEN [mon EXCEPT !._instance = t] ELSE mon
    /\ mthr' = [mthr EXCEPT ![t].pc = "new_release"]
    /\ UNCHANGED <<macc, notmon>>

\* __new__: the with block ends; return cls._instance
NewRelease(t) ==
    /\ mthr[t].pc = "new_release"
    /\ mon' = [mon EXCEPT !._instance_lock = "free"]
    /\ mthr' = [mthr EXCEPT ![t].pc = "init_check", ![t].ref = mon._instance]
    /\ macc' = [macc EXCEPT !.instances = @ \cup {mon._instance}]
    /\ UNCHANGED notmon

\* __init__: if not hasattr(self, "_initialized"):
InitCheck(t) ==
    /\ mthr[t].pc = "init_check"
    /\ mthr' = [mthr EXCEPT ![t].pc = IF mon.attrs._initialized = "unset"
                                      THEN "init_config" ELSE "init_return"]
    /\ UNCHANGED <<mon, macc, notmon>>

\* __init__: self.config = config
InitConfig(t) ==
    /\ mthr[t].pc = "init_config"
    /\ mon' = [mon EXCEPT !.attrs.config = mthr[t].arg]
    /\ macc' = [macc EXCEPT !.inits = @ + 1,
                            !.first_config = IF @ = "None" THEN mthr[t].arg ELSE @]
    /\ mthr' = [mthr EXCEPT ![t].pc = "init_flag"]
    /\ UNCHANGED notmon

\* __init__: self._initialized = True
InitFlag(t) ==
    /\ mthr[t].pc = "init_flag"
    /\ mon' = [mon EXCEPT !.attrs._initialized = "True"]
    /\ mthr' = [mthr EXCEPT ![t].pc = "init_lock"]
    /\ UNCHANGED <<macc, notmon>>

\* __init__: self._lock = threading.Lock(), a new lock object each time
InitLock(t) ==
    /\ mthr[t].pc = "init_lock"
    /\ mon' = [mon EXCEPT !.attrs._lock = t]
    /\ mthr' = [mthr EXCEPT ![t].pc = "init_metrics"]
    /\ UNCHANGED <<macc, notmon>>

\* __init__: self._last_metrics = {}
InitMetrics(t) ==
    /\ mthr[t].pc = "init_metrics"
    /\ mon' = [mon EXCEPT !.attrs._last_metrics = "{}"]
    /\ mthr' = [mthr EXCEPT ![t].pc = "init_checks"]
    /\ UNCHANGED <<macc, notmon>>

\* __init__: self._last_drift_check = None; self._last_health_check = None
InitChecks(t) ==
    /\ mthr[t].pc = "init_checks"
    /\ mon' = [mon EXCEPT !.attrs._last_drift_check = "None",
                          !.attrs._last_health_check = "None"]
    /\ mthr' = [mthr EXCEPT ![t].pc = "init_return"]
    /\ UNCHANGED <<macc, notmon>>

\* Monitoring(config) returns the instance to its caller
InitReturn(t) ==
    /\ mthr[t].pc = "init_return"
    /\ mthr' = [mthr EXCEPT ![t].pc = "idle", ![t].arg = "None"]
    /\ UNCHANGED <<mon, macc, notmon>>

\* a user thread calls log_performance_metrics(metrics) on its instance
LogPerformanceMetrics(t) ==
    \E m \in Metrics :
        /\ mthr[t].pc = "idle"
        /\ mthr[t].ref # "None"
        /\ mthr' = [mthr EXCEPT ![t].pc = "lpm_acquire", ![t].arg = m]
        /\ UNCHANGED <<mon, macc, notmon>>

\* where a thread goes when a statement of it raises: the monitor thread to
\* its except clause, a user thread out of its call
Raise(t, exc) ==
    IF t = MonitorThread
    THEN [mthr[t] EXCEPT !.pc = "except", !.held = "None", !.arg = "None"]
    ELSE [mthr[t] EXCEPT !.pc = "idle", !.held = "None", !.arg = "None"]

\* with self._lock: of log_performance_metrics (pc lpm_acquire) and of
\* monitor_system_health (pc health_acquire); an instance that has no _lock
\* attribute yet makes it raise AttributeError
LockAcquire(t) ==
    /\ mthr[t].pc \in {"lpm_acquire", "health_acquire"}
    /\ IF mon.attrs._lock = "unset"
       THEN /\ mthr' = [mthr EXCEPT ![t] = Raise(t, "AttributeError")]
            /\ mon' = mon
       ELSE /\ mon.locks[mon.attrs._lock] = "free"
            /\ mon' = [mon EXCEPT !.locks[mon.attrs._lock] = t]
            /\ mthr' = [mthr EXCEPT ![t].held = mon.attrs._lock,
                                    ![t].pc = IF mthr[t].pc = "lpm_acquire"
                                              THEN "lpm_write" ELSE "health_body"]
    /\ UNCHANGED <<macc, notmon>>

\* log_performance_metrics: self._last_metrics = metrics
LpmWrite(t) ==
    /\ mthr[t].pc = "lpm_write"
    /\ mon' = [mon EXCEPT !.attrs._last_metrics = mthr[t].arg]
    /\ macc' = Access(t, "_last_metrics")
    /\ mthr' = [mthr EXCEPT ![t].pc = "lpm_release"]
    /\ UNCHANGED notmon

\* log_performance_metrics: the with block ends, the method returns; the
\* monitor thread goes on to time.sleep
LpmRelease(t) ==
    /\ mthr[t].pc = "lpm_release"
    /\ mon' = [mon EXCEPT !.locks[mthr[t].held] = "free"]
    /\ mthr' = [mthr EXCEPT ![t].held = "None", ![t].arg = "None",
                            ![t].pc = IF t = MonitorThread THEN "sleep" ELSE "idle"]
    /\ UNCHANGED <<macc, notmon>>

\* start_monitoring: threading.Thread(target=monitor, daemon=True).start()
StartMonitoring(t) ==
    /\ mthr[t].pc = "idle"
    /\ mthr[t].ref # "None"
    /\ mthr[MonitorThread].pc = "off"
    /\ mthr' = [mthr EXCEPT ![MonitorThread].pc = "health_acquire"]
    /\ UNCHANGED <<mon, macc, notmon>>

\* monitor_system_health: the psutil calls under the lock, which may raise;
\* the with block then ends either way
HealthBody(t) ==
    /\ mthr[t].pc = "health_body"
    /\ mon' = [mon EXCEPT !.locks[mthr[t].held] = "free"]
    /\ \/ mthr' = [mthr EXCEPT ![t].held = "None", ![t].pc = "set_health"]
       \/ mthr' = [mthr EXCEPT ![t] = Raise(t, "psutil.Error")]
    /\ UNCHANGED <<macc, notmon>>

\* monitor: self._last_health_check = health_metrics
SetHealth(t) ==
    /\ mthr[t].pc = "set_health"
    /\ mon' = [mon EXCEPT !.attrs._last_health_check = "health_metrics"]
    /\ macc' = Access(t, "_last_health_check")
    /\ mthr' = [mthr EXCEPT ![t].pc = "read_metrics"]
    /\ UNCHANGED notmon

\* monitor: if self._last_metrics: self.log_performance_metrics(self._last_metrics)
ReadMetrics(t) ==
    /\ mthr[t].pc = "read_metrics"
    /\ IF mon.attrs._last_metrics = "unset"
       THEN /\ mthr' = [mthr EXCEPT ![t] = Raise(t, "AttributeError")]
            /\ macc' = macc
       ELSE /\ macc' = Access(t, "_last_metrics")
            /\ mthr' = IF mon.attrs._last_metrics = "{}"
                       THEN [mthr EXCEPT ![t].pc = "sleep"]
                       ELSE [mthr EXCEPT ![t].pc = "lpm_acquire",
                                         ![t].arg = mon.attrs._last_metrics]
    /\ UNCHANGED <<mon, notmon>>

MonitorExceptEnds(t) ==
    /\ mthr[t].pc = "except"
    /\ mthr' = [mthr EXCEPT ![t].pc = "ended"]
    /\ UNCHANGED <<mon, macc, notmon>>

\* monitor: except Exception as e: logger.error(...), and the while goes on
MonitorExcept(t) ==
    /\ mthr[t].pc = "except"
    /\ mthr' = [mthr EXCEPT ![t].pc = "health_acquire"]
    /\ UNCHANGED <<mon, macc, notmon>>

\* monitor: time.sleep(self.config.health_check_interval), and the while goes on
MonitorSleep(t) ==
    /\ mthr[t].pc = "sleep"
    /\ mthr' = [mthr EXCEPT ![t].pc = "health_acquire"]
    /\ UNCHANGED <<mon, macc, notmon>>

\* a statement of a call in progress on thread t
MonStep(t) ==
    \/ NewAcquire(t) \/ NewCheck(t) \/ NewRelease(t)
    \/ InitCheck(t) \/ InitConfig(t) \/ InitFlag(t) \/ InitLock(t)
    \/ InitMetrics(t) \/ InitChecks(t) \/ InitReturn(t)
    \/ LockAcquire(t) \/ LpmWrite(t) \/ LpmRelease(t)
    \/ HealthBody(t) \/ SetHealth(t) \/ ReadMetrics(t)
    \/ MonitorExcept(t) \/ MonitorSleep(t)

\* the user threads in U call Monitoring(config), log_performance_metrics and
\* start_monitoring; their statements and the monitor thread's interleave
MonNextOf(U) ==
    \/ \E t \in U : MonConstruct(t) \/ LogPerformanceMetrics(t) \/ StartMonitoring(t)
    \/ \E t \in U \cup {MonitorThread} : MonStep(t)

(***************************************************************************)
(* utils/logging.py: get_correlation_id, set_correlation_id,               *)
(* clear_correlation_id                                                    *)
(***************************************************************************)
LogThreads == {"t1", "t2", "t3"}

\* the values str(uuid.uuid4()) may return
Uuid4 == {"uuid-0", "uuid-1"}

\* the arguments of set_correlation_id: None, the empty string, two IDs
IdInputs == {"None", "", "x", "y"}

GlobalSlot(t) == "module"

\* _thread_local = threading.local(): every thread has attributes of its own
LocalSlot(t) == t

\* hasattr(_thread_local, "correlation_id") in thread t
HasCorrelationId(t) == corr[LocalSlot(t)] # "absent"

LogInit ==
    /\ corr = [l \in LogThreads \cup {"module"} |-> "absent"]
    /\ llast = [thread |-> "None", op |-> "none", arg |-> "None", ret |-> "None"]

\* get_correlation_id(): sets the attribute to a new UUID if there is none
GetCorrelationId(t) ==
    \E u \in Uuid4 :
        LET id == IF HasCorrelationId(t) THEN corr[LocalSlot(t)] ELSE u
        IN  /\ corr' = [corr EXCEPT ![LocalSlot(t)] = id]
            /\ llast' = [thread |-> t, op |-> "get_correlation_id", arg |-> "None",
                         ret |-> id]
            /\ UNCHANGED notlog

\* set_correlation_id(correlation_id): correlation_id or str(uuid.uuid4())
SetCorrelationId(t) ==
    \E x \in IdInputs, u \in Uuid4 :
        /\ corr' = [corr EXCEPT ![LocalSlot(t)] = IF x \in {"None", ""} THEN u ELSE x]
        /\ llast' = [thread |-> t, op |-> "set_correlation_id", arg |-> x,
                     ret |-> "None"]
        /\ UNCHANGED notlog

\* clear_correlation_id(): deletes the attribute if there is one
ClearCorrelationId(t) ==
    /\ corr' = [corr EXCEPT ![LocalSlot(t)] = "absent"]
    /\ llast' = [thread |-> t, op |-> "clear_correlation_id", arg |-> "None",
                 ret |-> "None"]
    /\ UNCHANGED notlog

LogNext ==
    \E t \in LogThreads :
        GetCorrelationId(t) \/ SetCorrelationId(t) \/ ClearCorrelationId(t)

(***************************************************************************)
(* model_inference.py: ModelInferenceService over the tables               *)
(* model_metadata and inference_request                                    *)
(***************************************************************************)
\* the rows of model_metadata: two versions of the model "diabetes", the
\* older of them (model-2) no longer active
ModelIds == {"model-1", "model-2"}

\* the model names callers ask for: the one that exists and one that does not
ModelNames == {"diabetes", "unknown"}

\* the primary keys generate_uuid may give to rows of inference_request
RequestIds == {"req-1", "req-2"}

\* the request IDs callers hand to process_inference_request
RequestIdInputs == RequestIds \cup {"req-9"}

\* input_data values, and the batches made of them
InputData == {"in-1", "in-2"}

BatchInputs == { << >>, <<"in-1">>, <<"in-1", "in-2">>, <<"in-2", "in-1">> }

\* error_message arguments: None, the empty string, a message
ErrorInputs == {"None", "", "error"}

NoRow == [present |-> FALSE, model_id |-> "None", input_data |-> "None",
          output_data |-> "None", status |-> "None", error_message |-> "None",
          deleted_at |-> "None"]

\* InferenceRequest(model_id=..., input_data=..., status="PENDING"), the
\* other columns at their defaults
InferenceRequest(model_id, input_data, status) ==
    [present |-> TRUE, model_id |-> model_id, input_data |-> input_data,
     output_data |-> "None", status |-> status, error_message |-> "None",
     deleted_at |-> "None"]

NoInfCall ==
    [op |-> "none", name |-> "None", inputs |-> << >>, request_id |-> "None",
     output_data |-> "None", error_message |-> "None", exc |-> "", ret |-> << >>,
     commits |-> 0]

InfInit ==
    /\ models = [m \in ModelIds |->
                    [model_name |-> "diabetes", is_active |-> (m = "model-1"),
                     deleted_at |-> "None"]]
    /\ requests = [r \in RequestIds |-> NoRow]
    /\ ilast = NoInfCall

\* a query on the model name alone
ActiveModelsAnyState(model_name) ==
    { m \in ModelIds : models[m].model_name = model_name }

\* the rows the query of get_active_model selects
ActiveModels(model_name) ==
    { m \in ModelIds : /\ models[m].model_name = model_name
                       /\ models[m].is_active = TRUE
                       /\ models[m].deleted_at = "None" }

\* get_active_model: .first() gives one of the selected rows, None if there
\* is none, and None makes the method raise ValueError
get_active_model(model_name) ==
    IF ActiveModels(model_name) = {}
    THEN { [exc |-> "ValueError", model |-> "None"] }
    ELSE { [exc |-> "", model |-> m] : m \in ActiveModels(model_name) }

\* the primary keys not in use
FreeIds == { r \in RequestIds : ~requests[r].present }

\* sequences of n different unused primary keys
RECURSIVE FreshIds(_, _)
FreshIds(n, free) ==
    IF n = 0 THEN { << >> }
    ELSE UNION { { <<r>> \o rest : rest \in FreshIds(n - 1, free \ {r}) } : r \in free }

\* the table after db.add of one new row per input and db.commit()
RECURSIVE AddAll(_, _, _, _)
AddAll(table, ids, model_id, inputs) ==
    IF ids = << >> THEN table
    ELSE AddAll([table EXCEPT ![Head(ids)] = InferenceRequest(model_id, Head(inputs), "PENDING")],
                Tail(ids), model_id, Tail(inputs))

\* create_inference_request(model_name, input_data)
CreateInferenceRequest ==
    \E name \in ModelNames, input \in InputData :
    \E g \in get_active_model(name) :
        IF g.exc # ""
        THEN /\ ilast' = [NoInfCall EXCEPT !.op = "create_inference_request",
                                           !.name = name, !.inputs = <<input>>,
                                           !.exc = g.exc]
             /\ UNCHANGED <<models, requests, notinf>>
        ELSE \E ids \in FreshIds(1, FreeIds) :
                /\ requests' = AddAll(requests, ids, g.model, <<input>>)
                /\ ilast' = [NoInfCall EXCEPT !.op = "create_inference_request",
                                              !.name = name, !.inputs = <<input>>,
                                              !.ret = ids, !.commits = 1]
                /\ UNCHANGED <<models, notinf>>

\* batch_inference(model_name, batch_inputs)
BatchInference ==
    \E name \in ModelNames, inputs \in BatchInputs :
    \E g \in get_active_model(name) :
        IF g.exc # ""
        THEN /\ ilast' = [NoInfCall EXCEPT !.op = "batch_inference",
                                           !.name = name, !.inputs = inputs,
                                           !.exc = g.exc]
             /\ UNCHANGED <<models, requests, notinf>>
        ELSE \E ids \in FreshIds(Len(inputs), FreeIds) :
                /\ requests' = AddAll(requests, ids, g.model, inputs)
                /\ ilast' = [NoInfCall EXCEPT !.op = "batch_inference",
                                              !.name = name, !.inputs = inputs,
                                              !.ret = ids, !.commits = 1]
                /\ UNCHANGED <<models, notinf>>

\* the row the query of process_inference_request selects, if any
FindRequest(request_id) ==
    { r \in RequestIds : /\ r = request_id
                         /\ requests[r].present
                         /\ requests[r].deleted_at = "None" }

ProcessedAlwaysSuccess(row, output_data, error_message) ==
    [row EXCEPT !.status = "SUCCESS", !.output_data = output_data]

\* the row after lines 131-136: if error_message: ... else: ...
Processed(row, output_data, error_message) ==
    IF error_message \notin {"None", ""}
    THEN [row EXCEPT !.status = "FAILED", !.error_message = error_message]
    ELSE [row EXCEPT !.status = "SUCCESS", !.output_data = output_data]

\* process_inference_request(request_id, output_data, error_message)
ProcessInferenceRequest ==
    \E id \in RequestIdInputs, err \in ErrorInputs :
        LET call == [NoInfCall EXCEPT !.op = "process_inference_request",
                                      !.request_id = id, !.output_data = "out",
                                      !.error_message = err]
        IN  IF FindRequest(id) = {}
            THEN /\ ilast' = [call EXCEPT !.exc = "ValueError"]
                 /\ UNCHANGED <<models, requests, notinf>>
            ELSE /\ requests' = [requests EXCEPT ![id] = Processed(@, "out", err)]
                 /\ ilast' = [call EXCEPT !.ret = <<id>>, !.commits = 1]
                 /\ UNCHANGED <<models, notinf>>

\* another writer of the database retires a model: is_active becomes false
DeactivateModel ==
    \E m \in ModelIds :
        /\ models[m].is_active
        /\ models' = [models EXCEPT ![m].is_active = FALSE]
        /\ ilast' = NoInfCall
        /\ UNCHANGED <<requests, notinf>>

\* another writer of the database soft-deletes a model or a request:
\* deleted_at is set
SoftDelete ==
    /\ \/ \E m \in ModelIds :
             /\ models[m].deleted_at = "None"
             /\ models' = [models EXCEPT ![m].deleted_at = "now"]
             /\ requests' = requests
       \/ \E r \in RequestIds :
             /\ requests[r].present
             /\ requests[r].deleted_at = "None"
             /\ requests' = [requests EXCEPT ![r].deleted_at = "now"]
             /\ models' = models
    /\ ilast' = NoInfCall
    /\ UNCHANGED notinf

InfNext ==
    \/ CreateInferenceRequest
    \/ BatchInference
    \/ ProcessInferenceRequest
    \/ DeactivateModel
    \/ SoftDelete

(***************************************************************************)
(* src/core/data_pipeline.py: DataPipeline.run_pipeline and its stages.    *)
(* A DataFrame is the dtype of each of its columns ("absent": no such      *)
(* column).  One call of run_pipeline is in progress at a time; pipe.pc is *)
(* the stage it is about to run, pipe.trace the stages it has entered.     *)
(***************************************************************************)
Columns == {"age", "sex"}

\* the dtypes read_csv gives a column
Dtypes == {"absent", "number", "object"}

DataFrames == [Columns -> Dtypes]

NoData == [c \in Columns |-> "absent"]

\* what is at source_path: nothing, an empty file, a file that is no CSV,
\* or a CSV file with the data .frame
Sources ==
    { [kind |-> k, frame |-> NoData] : k \in {"missing", "empty", "unparsable"} }
        \cup { [kind |-> "csv", frame |-> f] : f \in DataFrames }

\* validation_schema: the rule for each column ("none": the schema does
\* not name the column; "other": a rule with another type, or without one)
Rules == {"none", "numeric", "categorical", "other"}

Schemas == [Columns -> Rules]

ExecutionFailed == "Data pipeline execution failed."

\* extract: read_csv; FileNotFoundError is raised again, EmptyDataError
\* becomes ValueError, a ParserError passes through
extract(source) ==
    CASE source.kind = "missing" -> [exc |-> "FileNotFoundError", data |-> NoData]
      [] source.kind = "empty" -> [exc |-> "ValueError", data |-> NoData]
      [] source.kind = "unparsable" -> [exc |-> "ParserError", data |-> NoData]
      [] OTHER -> [exc |-> "", data |-> source.frame]

\* transform: numeric columns are normalised, object columns replaced by
\* their category codes (integers); any exception of pandas becomes
\* RuntimeError
transform(data, pandas_ok) ==
    IF ~pandas_ok
    THEN [exc |-> "RuntimeError", data |-> data]
    ELSE [exc |-> "",
          data |-> [c \in Columns |-> IF data[c] = "object" THEN "number" ELSE data[c]]]

\* validate: every column of the schema is present, a numeric one has a
\* numeric dtype, a categorical one the dtype category
validate(schema, data) ==
    IF \E c \in Columns :
           /\ schema[c] # "none"
           /\ \/ data[c] = "absent"
              \/ schema[c] = "numeric" /\ data[c] # "number"
              \/ schema[c] = "categorical" /\ data[c] # "category"
    THEN "DataValidationException"
    ELSE ""

\* load: to_csv; any exception becomes RuntimeError
load(data, dest_ok) == IF dest_ok THEN "" ELSE "RuntimeError"

\* the statement of the try block that follows a stage (lines 190-194)
StageAfterSkipsValidate(stage) ==
    CASE stage = "extract" -> "transform"
      [] stage = "transform" -> "load"
      [] stage = "validate" -> "load"
      [] OTHER -> "returned"

StageAfter(stage) ==
    CASE stage = "extract" -> "transform"
      [] stage = "transform" -> "validate"
      [] stage = "validate" -> "load"
      [] OTHER -> "returned"

NoRun ==
    [pc |-> "idle", source |-> [kind |-> "missing", frame |-> NoData],
     schema |-> [c \in Columns |-> "none"], pandas_ok |-> TRUE, dest_ok |-> TRUE,
     data |-> NoData, trace |-> << >>, inner |-> "", exc |-> "", msg |-> "",
     wrote |-> FALSE, dest |-> NoData]

PipeInit == pipe = NoRun

\* a call of run_pipeline on a pipeline object with some schema, with some
\* file at source_path and a destination that can or cannot be written
RunPipeline ==
    /\ pipe.pc \in {"idle", "returned"}
    /\ \E src \in Sources, sch \in Schemas, pok \in BOOLEAN, dok \in BOOLEAN :
           pipe' = [NoRun EXCEPT !.pc = "extract", !.source = src, !.schema = sch,
                                 !.pandas_ok = pok, !.dest_ok = dok]
    /\ UNCHANGED notpipe

\* the stage has raised exc (empty: it has returned)
AfterStage(stage, exc) ==
    IF exc # ""
    THEN [pipe EXCEPT !.pc = "except", !.inner = exc, !.trace = Append(@, stage)]
    ELSE [pipe EXCEPT !.pc = StageAfter(stage), !.trace = Append(@, stage)]

Extract ==
    /\ pipe.pc = "extract"
    /\ LET r == extract(pipe.source)
       IN  pipe' = [AfterStage("extract", r.exc) EXCEPT !.data = r.data]
    /\ UNCHANGED notpipe

Transform ==
    /\ pipe.pc = "transform"
    /\ LET r == transform(pipe.data, pipe.pandas_ok)
       IN  pipe' = [AfterStage("transform", r.exc) EXCEPT !.data = r.data]
    /\ UNCHANGED notpipe

Validate ==
    /\ pipe.pc = "validate"
    /\ pipe' = AfterStage("validate", validate(pipe.schema, pipe.data))
    /\ UNCHANGED notpipe

Load ==
    /\ pipe.pc = "load"
    /\ LET exc == load(pipe.data, pipe.dest_ok)
       IN  pipe' = [AfterStage("load", exc) EXCEPT
                        !.wrote = (exc = ""),
                        !.dest = IF exc = "" THEN pipe.data ELSE @]
    /\ UNCHANGED notpipe

\* except Exception (lines 195-197)
PipelineExcept ==
    /\ pipe.pc = "except"
    /\ pipe' = [pipe EXCEPT !.pc = "returned", !.exc = "RuntimeError",
                            !.msg = ExecutionFailed]
    /\ UNCHANGED notpipe

PipeNext ==
    \/ RunPipeline
    \/ Extract
    \/ Transform
    \/ Validate
    \/ Load
    \/ PipelineExcept

(***************************************************************************)
(* src/cli/main.py: the command handlers.  One command runs at a time;     *)
(* cli.events is what the handler has done so far, in order.               *)
(***************************************************************************)
Commands == {"preprocess", "train", "evaluate"}

ModelTypes == {"linear", "neural_network", "decision_tree"}

\* what a path of the command line leads to
FileStates == {"missing", "unreadable", "readable", "directory"}

\* the arguments of the command that validate_file_path is called on, in
\* the order of the calls
PathsOf(command) ==
    CASE command = "preprocess" -> <<"input_file">>
      [] command = "train" -> <<"training_data">>
      [] OTHER -> <<"model_file", "test_data">>

\* CLIError.code by default, and ValidationError.code
CLIErrorCode == 500

ValidationErrorCode == 422

\* validate_file_path without the os.access test
validate_file_path_exists_only(state) ==
    IF state = "missing" THEN ValidationErrorCode ELSE 0

\* validate_file_path: the code of the exception raised, 0 if none:
\* os.path.exists, then os.access(R_OK)
validate_file_path(state) ==
    IF state = "missing" THEN ValidationErrorCode
    ELSE IF state = "unreadable" THEN ValidationErrorCode
    ELSE 0

Event(ev, arg) == [ev |-> ev, arg |-> arg]

NoCommand ==
    [pc |-> "none", command |-> "None", model_type |-> "None", files |-> << >>,
     next |-> 1, events |-> << >>, code |-> 0, exit |-> -1]

CliInit == cli = NoCommand

\* main has parsed the command line and calls args.func(args)
CliInvoke ==
    /\ cli.pc \in {"none", "returned", "exited"}
    /\ \E c \in Commands :
           \E f \in [1..Len(PathsOf(c)) -> FileStates] :
               \E mt \in IF c = "train" THEN ModelTypes ELSE {"None"} :
                   cli' = [NoCommand EXCEPT !.pc = "validate", !.command = c,
                                            !.model_type = mt, !.files = f]
    /\ UNCHANGED notcli

\* the next call of validate_file_path in the try block
CliValidate ==
    /\ cli.pc = "validate"
    /\ LET name == PathsOf(cli.command)[cli.next]
           code == validate_file_path(cli.files[cli.next])
           done == Append(cli.events, Event("validate_file_path", name))
       IN  IF code # 0
           THEN cli' = [cli EXCEPT !.pc = "except", !.code = code, !.events = done]
           ELSE cli' = [cli EXCEPT !.events = done, !.next = @ + 1,
                                   !.pc = IF cli.next = Len(PathsOf(cli.command))
                                          THEN "log_operation" ELSE "validate"]
    /\ UNCHANGED notcli

CliLogOperation ==
    /\ cli.pc = "log_operation"
    /\ cli' = [cli EXCEPT !.pc = "print",
                          !.events = Append(@, Event("log_operation", cli.command))]
    /\ UNCHANGED notcli

\* the two print calls, and the return to main, which ends with status 0
CliPrint ==
    /\ cli.pc \in {"print", "print_done"}
    /\ cli' = [cli EXCEPT
                  !.events = Append(@, Event("print", IF cli.pc = "print" THEN "progress"
                                                      ELSE "completed")),
                  !.pc = IF cli.pc = "print" THEN "print_done" ELSE "returned",
                  !.exit = IF cli.pc = "print" THEN @ ELSE 0]
    /\ UNCHANGED notcli

\* except CLIError: logging.error, then sys.exit(e.code); SystemExit is no
\* Exception, so main's handler of line 159 lets it end the process
CliExcept ==
    /\ cli.pc = "except"
    /\ cli' = [cli EXCEPT !.pc = "exited", !.exit = cli.code,
                          !.events = Append(@, Event("logging.error", cli.command))]
    /\ UNCHANGED notcli

CliNext ==
    \/ CliInvoke
    \/ CliValidate
    \/ CliLogOperation
    \/ CliPrint
    \/ CliExcept

(***************************************************************************)
(* Specifications                                                          *)
(***************************************************************************)
Init ==
    /\ ctx = [c \in CtxId |-> NoCtx]
    /\ sealed = {}
    /\ tags = {}
    /\ keypairs = {}
    /\ sigs = {}
    /\ last = NoCall
    /\ noted = NoCall
    /\ thread = [t \in Threads |-> Idle]
    /\ frames = [l \in Threads \cup {"self"} |-> NoFrame]
    /\ MonInit
    /\ LogInit
    /\ InfInit
    /\ PipeInit
    /\ CliInit

MacNext == Construct \/ GenerateHmac \/ VerifyHmac

MacSpec == Init /\ [][MacNext]_vars

SymNext == Construct \/ EncryptData \/ DecryptData

SymSpec == Init /\ [][SymNext]_vars

\* the asymmetric operations read no field of self: one object is enough
SigNext == ConstructIn({"a"}) \/ GenerateRsaKeypair \/ SignData \/ VerifySignature

SigSpec == Init /\ [][SigNext]_vars

\* the integrity engine with objects that are released and built again
LifeNext == Construct \/ GenerateHmac \/ VerifyHmac \/ Release

LifeSpec == Init /\ [][LifeNext]_vars

\* every operation of one object; the caller holds the results of one engine
\* at a time and drops them before it turns to another engine
AllNext ==
    \/ ConstructIn({"a"})
    \/ /\ sealed \cup keypairs \cup sigs = {}
       /\ GenerateHmac \/ VerifyHmac
    \/ /\ tags \cup keypairs \cup sigs = {}
       /\ EncryptData \/ DecryptData
    \/ /\ sealed \cup tags = {}
       /\ GenerateRsaKeypair \/ SignData \/ VerifySignature
    \/ Forget

AllSpec == Init /\ [][AllNext]_vars

\* the same, with a caller that remembers calls
PureNext == AllNext \/ Note

PureSpec == Init /\ [][PureNext]_vars

\* two threads share the one object
ConcNext ==
    \/ ConstructIn({"a"})
    \/ \E t \in Threads :
           ThreadCall(t) \/ ThreadNew(t) \/ ThreadUpdate(t) \/ ThreadFinalize(t) \/ ThreadReturn(t)

ConcSpec == Init /\ [][ConcNext]_vars

LogSpec == Init /\ [][LogNext]_vars

InfSpec == Init /\ [][InfNext]_vars

PipeSpec == Init /\ [][PipeNext]_vars

CliSpec == Init /\ [][CliNext]_vars

\* monitoring.py with two user threads
MonNext == MonNextOf(MonUsers)

MonSpec == Init /\ [][MonNext]_vars

\* monitoring.py with one user thread.  The threads of CPython are threads
\* of the operating system: none that can run is left waiting forever (WF),
\* and a thread waiting for a lock that is released again and again gets
\* it in the end (SF on the acquire).
MonLiveNext == MonNextOf({"u1"})

MonLiveSpec ==
    /\ Init
    /\ [][MonLiveNext]_vars
    /\ \A t \in {"u1", MonitorThread} :
           /\ WF_vars(MonStep(t))
           /\ SF_vars(LockAcquire(t))

(***************************************************************************)
(* Properties of the symmetric engine (checked under SymSpec)              *)
(***************************************************************************)
\* the sealed message m is what the last call, a decrypt_data, was given,
\* on the object that sealed it
SameMessage(m) ==
    /\ last.op = "decrypt_data"
    /\ m.ctx = last.ctx
    /\ m.out1 = last.arg1
    /\ m.out2 = last.arg2

\* the last call, a decrypt_data on the object that sealed m, was given m
\* with one bit of its ciphertext or of its nonce inverted
TamperedMessage(m) ==
    /\ last.op = "decrypt_data"
    /\ m.ctx = last.ctx
    /\ \/ last.arg1 \in SingleBitFlips(m.out1) /\ last.arg2 = m.out2
       \/ last.arg1 = m.out1 /\ last.arg2 \in SingleBitFlips(m.out2)

\* the last call, a decrypt_data, was given m on an object whose key is not
\* the key of the object that sealed m
WrongKeyMessage(m) ==
    /\ last.op = "decrypt_data"
    /\ m.out1 = last.arg1
    /\ m.out2 = last.arg2
    /\ ctx[m.ctx].alive
    /\ ctx[last.ctx].secret_key # ctx[m.ctx].secret_key

\* the byte string b holds the byte string t (of one chunk) as a part
Contains(b, t) == \E i \in 1..Len(b) : << b[i] >> = t

\* C1: Round-trip: decrypt_data applied to the (ciphertext, nonce) pair that
\* encrypt_data(p) returned on the same object returns p and raises nothing.
C1_RoundTrip ==
    \A m \in sealed : SameMessage(m) => (last.exc = "" /\ last.out = m.data)

\* C2: Tamper detection: decrypt_data of a sealed message with one bit of the
\* ciphertext or of the nonce inverted ends in an authentication failure
\* (InvalidTag) and returns no plaintext.
C2_TamperDetection ==
    \A m \in sealed : TamperedMessage(m) => (last.exc = "InvalidTag" /\ last.out = << >>)

\* C3: Fail closed on a wrong key: decrypt_data on an object whose key differs
\* from the sealing object's key raises an authentication failure (InvalidTag)
\* to the caller and returns no plaintext.
C3_WrongKeyFailsClosed ==
    \A m \in sealed : WrongKeyMessage(m) => (last.exc = "InvalidTag" /\ last.out = << >>)

\* C4: The ciphertext encrypt_data returns holds the authentication tag the
\* encryptor computed, for every plaintext (the empty one too), and comes with
\* the 16-byte nonce used.
C4_SealedCarriesTag ==
    \A m \in sealed : Contains(m.out1, m.aux) /\ BLen(m.out2) = AES_BLOCK_SIZE

\* C6: Key-length validation: a key of a length other than 32 bytes makes the
\* constructor raise ValueError with no key stored and no MAC key generated;
\* a key of 32 bytes is stored and a 32-byte MAC key is generated.
C6_KeyLengthValidation ==
    last.op = "__init__" =>
        IF BLen(last.arg1) = AES_KEY_SIZE
        THEN /\ last.exc = ""
             /\ ctx[last.ctx].alive
             /\ ctx[last.ctx].secret_key = last.arg1
             /\ BLen(ctx[last.ctx].hmac_key) = HMAC_KEY_SIZE
        ELSE /\ last.exc = "ValueError"
             /\ ctx[last.ctx] = NoCtx

\* a key of 33 bytes was refused
C6_Witness ==
    /\ last.op = "__init__"
    /\ BLen(last.arg1) = AES_KEY_SIZE + 1
    /\ last.exc = "ValueError"
    /\ ctx[last.ctx] = NoCtx

(***************************************************************************)
(* Properties of the integrity engine (checked under MacSpec)              *)
(***************************************************************************)
\* C7: MAC completeness: verify_hmac(d, generate_hmac(d)) on the same object
\* returns True, whatever was called on the objects in between.
C7_MacCompleteness ==
    last.op = "verify_hmac" =>
        \A t \in tags :
            (t.ctx = last.ctx /\ t.data = last.data /\ t.out1 = last.arg1)
                => (last.exc = "" /\ last.ret = "True")

\* a tag was verified over its own data, after other calls
C7_Witness ==
    /\ last.op = "verify_hmac"
    /\ last.ret = "True"
    /\ \E t \in tags : t.ctx = last.ctx /\ t.data = last.data /\ t.out1 = last.arg1
    /\ \A c \in CtxId : ctx[c].alive

\* C8: MAC soundness: verify_hmac(d', generate_hmac(d)) with d' # d on the
\* same object returns False.
C8_MacSoundness ==
    last.op = "verify_hmac" =>
        \A t \in tags :
            (t.ctx = last.ctx /\ t.out1 = last.arg1 /\ t.data # last.data)
                => (last.exc = "" /\ last.ret = "False")

\* the tag of b"H" was refused for b"H " (one trailing space)
C8_Witness ==
    /\ last.op = "verify_hmac"
    /\ last.ret = "False"
    /\ last.data = Raw(<<72, 32>>)
    /\ \E t \in tags : t.ctx = last.ctx /\ t.out1 = last.arg1 /\ t.data = Raw(<<72>>)

\* C9: verify_hmac never raises for a tag: a tag that is not the tag of the
\* data (mismatched, empty, cut short, too long) gives the value False.
C9_InvalidTagIsFalse ==
    last.op = "verify_hmac" =>
        /\ last.exc = ""
        /\ last.arg1 # generate_hmac(ctx[last.ctx], last.data) => last.ret = "False"

\* a tag cut short by one byte was answered with False
C9_Witness ==
    /\ last.op = "verify_hmac"
    /\ BLen(last.arg1) = SHA256_DIGEST_SIZE - 1
    /\ last.exc = ""
    /\ last.ret = "False"

(***************************************************************************)
(* Properties of the asymmetric engine (checked under SigSpec)             *)
(***************************************************************************)
\* the last call, a verify_signature, was given the public half of the key
\* pair kp, the data of the signature s and s itself, s made by sign_data
\* with the private half of kp
OwnSignature(kp, s) ==
    /\ last.op = "verify_signature"
    /\ s.aux = kp.out1
    /\ last.arg1 = kp.out2
    /\ last.data = s.data
    /\ last.arg2 = s.out1

\* C10: Signature completeness: for a key pair (priv, pub) of one
\* generate_rsa_keypair call and any data d,
\* verify_signature(pub, d, sign_data(priv, d)) returns True.
C10_SignatureCompleteness ==
    \A kp \in keypairs, s \in sigs :
        OwnSignature(kp, s) => (last.exc = "" /\ last.ret = "True")

\* a signature was verified with the public half of its key pair
C10_Witness ==
    \E kp \in keypairs, s \in sigs : OwnSignature(kp, s) /\ last.ret = "True"

\* the last call, a verify_signature, was given the signature s with a public
\* key that parses, and either other data than s was made over or the public
\* key of another key than the one that made s
ForeignSignature(s) ==
    /\ last.op = "verify_signature"
    /\ last.arg2 = s.out1
    /\ load_pem_public_key(last.arg1).exc = ""
    /\ \/ last.data # s.data
       \/ load_pem_public_key(last.arg1).key # load_pem_private_key(s.aux).key

\* C11: Signature soundness: verify_signature(pub, d, s) returns True only if
\* s is what sign_data returns for the private half of pub and data equal to
\* d; with the public key of another key pair, or with other data, it
\* returns False.
C11_SignatureSoundness ==
    last.op = "verify_signature" =>
        /\ last.ret = "True" =>
               \E k \in RSAKeys, salt \in urandom(PSS_MAX_LENGTH) :
                   /\ last.arg1 = public_bytes(k)
                   /\ last.arg2 = sign_data(private_bytes(k), last.data, salt).out
        /\ \A s \in sigs : ForeignSignature(s) => (last.exc = "" /\ last.ret = "False")

\* a signature was refused under the public key of another key pair
C11_Witness ==
    \E s \in sigs :
        /\ ForeignSignature(s)
        /\ last.data = s.data
        /\ last.ret = "False"

\* the signature given to the last call, a verify_signature, is malformed
\* (empty, cut short, a bit inverted) or is not one of the key over the data
BadSignature ==
    \/ BLen(last.arg2) # RSA_KEY_SIZE \div 8
    \/ \E s \in sigs : last.arg2 \in SingleBitFlips(s.out1)
    \/ \E s \in sigs : ForeignSignature(s)

\* C12 (as claimed): verify_signature never raises: a public key that does
\* not parse as PEM, a malformed signature or a mismatch gives False.
C12_NeverRaises ==
    last.op = "verify_signature" =>
        /\ last.exc = ""
        /\ (load_pem_public_key(last.arg1).exc # "" \/ BadSignature) => last.ret = "False"

\* C12 (amended): with a public key that parses, verify_signature never
\* raises: a malformed signature or a mismatch gives False.
C12_NeverRaisesWithParsedKey ==
    (last.op = "verify_signature" /\ load_pem_public_key(last.arg1).exc = "") =>
        /\ last.exc = ""
        /\ BadSignature => last.ret = "False"

\* a signature cut short by one byte was answered with False
C12_Witness ==
    /\ last.op = "verify_signature"
    /\ load_pem_public_key(last.arg1).exc = ""
    /\ BLen(last.arg2) = (RSA_KEY_SIZE \div 8) - 1
    /\ last.exc = ""
    /\ last.ret = "False"

\* C13: A public key PEM that does not parse makes verify_signature end with
\* an error of its own (the ValueError of load_pem_public_key), not with the
\* False it returns for a key that parses and a signature that does not verify.
C13_KeyFormatError ==
    last.op = "verify_signature" =>
        IF load_pem_public_key(last.arg1).exc # ""
        THEN last.exc = "ValueError" /\ last.ret = "None"
        ELSE last.exc = "" /\ last.ret \in {"True", "False"}

\* bytes that are no PEM were given as the public key, and the call raised
C13_Witness ==
    /\ last.op = "verify_signature"
    /\ last.arg1 = Raw(<<72>>)
    /\ last.exc = "ValueError"

(***************************************************************************)
(* Properties of the keys (checked under MacSpec)                          *)
(***************************************************************************)
\* C17: Key separation: hmac_key is set once, by the construction of the
\* object, to the bytes os.urandom(HMAC_KEY_SIZE) returned in that call,
\* whatever secret_key was given, and no later step gives it another value.
C17_KeySeparation ==
    [][\A c \in CtxId :
          ctx'[c].alive =>
              IF ctx[c].alive
              THEN ctx'[c].hmac_key = ctx[c].hmac_key
              ELSE /\ last'.op = "__init__"
                   /\ last'.ctx = c
                   /\ last'.arg2 \in urandom(HMAC_KEY_SIZE)
                   /\ ctx'[c].hmac_key = last'.arg2
                   /\ ctx'[c].secret_key = last'.arg1]_vars

\* two objects built from the same secret_key hold different MAC keys, and
\* one of them a MAC key other than its secret_key
C17_Witness ==
    /\ ctx["a"].alive
    /\ ctx["b"].alive
    /\ ctx["a"].secret_key = ctx["b"].secret_key
    /\ ctx["a"].hmac_key # ctx["b"].hmac_key
    /\ ctx["a"].hmac_key # ctx["a"].secret_key
    /\ last.op = "verify_hmac"

C16_ConcurrentUseIsSafe ==
    \A t \in Threads :
        thread[t].pc = "done" =>
            LET call == thread[t].call
                self == ctx[call.ctx]
            IN  IF call.op = "generate_hmac"
                THEN /\ call.out = generate_hmac(self, call.data)
                     /\ call.exc = ""
                ELSE /\ call.exc = verify_hmac(self, call.data, call.arg1).exc
                     /\ call.ret = verify_hmac(self, call.data, call.arg1).ret

\* a verify_hmac of a valid tag has finished with True while a generate_hmac
\* over other data is part-way on the other thread
C16_Witness ==
    /\ thread["t1"].pc = "done"
    /\ thread["t1"].call.op = "verify_hmac"
    /\ thread["t1"].call.arg1 = generate_hmac(ctx["a"], thread["t1"].call.data)
    /\ thread["t1"].call.ret = "True"
    /\ thread["t2"].pc = "finalize"
    /\ thread["t2"].call.op = "generate_hmac"
    /\ thread["t2"].call.data # thread["t1"].call.data

(***************************************************************************)
(* Properties of the object's fields (checked under AllSpec, LifeSpec)     *)
(***************************************************************************)
\* C15: Keys are read-only after construction: no call of encrypt_data,
\* decrypt_data, generate_hmac, verify_hmac, generate_rsa_keypair, sign_data
\* or verify_signature, whether it returns or raises, changes secret_key,
\* hmac_key or any other field of the object.
C15_KeysReadOnly ==
    [][\A c \in CtxId : ctx[c].alive => ctx'[c] = ctx[c]]_vars

\* a call has raised and the object holds the keys it was built with
C15_Witness ==
    /\ last.op = "decrypt_data"
    /\ last.exc # ""
    /\ ctx[last.ctx].alive
    /\ BLen(ctx[last.ctx].secret_key) = AES_KEY_SIZE
    /\ BLen(ctx[last.ctx].hmac_key) = HMAC_KEY_SIZE

\* C20 (as claimed): Key lifetime: once the caller has released an object,
\* its secret_key and hmac_key are wiped: nothing that was the object still
\* holds the key bytes.
C20_KeysWipedOnRelease ==
    \A c \in CtxId :
        ~ctx[c].alive => (ctx[c].secret_key = << >> /\ ctx[c].hmac_key = << >>)

(***************************************************************************)
(* Properties of repeated calls (checked under PureSpec)                   *)
(***************************************************************************)
\* the calls x and y are the same operation on the same object with the
\* same arguments
SameCall(x, y) ==
    /\ x.op = y.op
    /\ x.ctx = y.ctx
    /\ x.data = y.data
    /\ x.arg1 = y.arg1
    /\ x.arg2 = y.arg2

\* what the operation of the call gives for the fields of self and the
\* arguments of the call
Outcome(self, call) ==
    IF call.op = "generate_hmac"
    THEN [exc |-> "", ret |-> "None", out |-> generate_hmac(self, call.data)]
    ELSE IF call.op = "verify_hmac"
    THEN LET r == verify_hmac(self, call.data, call.arg1)
         IN  [exc |-> r.exc, ret |-> r.ret, out |-> << >>]
    ELSE IF call.op = "decrypt_data"
    THEN LET r == decrypt_data(self, call.arg1, call.arg2)
         IN  [exc |-> r.exc, ret |-> "None", out |-> r.out]
    ELSE LET r == verify_signature(call.arg1, call.data, call.arg2)
         IN  [exc |-> r.exc, ret |-> r.ret, out |-> << >>]

\* C19: generate_hmac, verify_hmac, verify_signature and decrypt_data are
\* functions of their arguments and the keys of the object: whatever was
\* called before, the outcome of a call is the one its arguments and the keys
\* give, and a call repeated with the arguments of a remembered call has the
\* remembered outcome (checking a tag, signature or sealed message does not
\* use it up).
C19_Repeatable ==
    last.op \in Deterministic =>
        /\ [exc |-> last.exc, ret |-> last.ret, out |-> last.out]
               = Outcome(ctx[last.ctx], last)
        /\ SameCall(last, noted) => last = noted

\* a tag that was accepted and remembered has been accepted again
C19_Witness ==
    /\ noted.op = "verify_hmac"
    /\ noted.ret = "True"
    /\ SameCall(last, noted)
    /\ last.ret = "True"

(***************************************************************************)
(* Properties of monitoring.py (checked under MonSpec, MonLiveSpec)        *)
(***************************************************************************)
\* C22 (as claimed): The Monitoring singleton is thread-safe: however many
\* threads call Monitoring(config), one after another or at once, every call
\* returns the same instance, the body of __init__ runs once, and the config
\* of the first construction stays (no later or concurrent construction
\* replaces config or the lock object).
C22_SingletonThreadSafe ==
    /\ \A x, y \in macc.instances : x = y
    /\ macc.inits <= 1
    /\ macc.first_config # "None" => mon.attrs.config = macc.first_config

\* C23 (as claimed): Every read and write of _last_metrics and of
\* _last_health_check by a method of the instance, the monitor thread's
\* included, is made while the thread holds the instance's _lock.
C23_SharedFieldsUnderLock ==
    macc.unlocked = {}

\* the monitor thread is inside log_performance_metrics
MonitorLogs == mthr[MonitorThread].pc \in {"lpm_acquire", "lpm_write", "lpm_release"}

Seen(t) == corr[LocalSlot(t)]

\* C25: Correlation IDs are per thread and stable: get_correlation_id
\* returns the ID its thread has and leaves it as it is, and gives the thread
\* a newly generated one if it has none (as after clear_correlation_id);
\* after set_correlation_id(x) with a non-empty x the thread has x; and no
\* call changes the ID of a thread other than the calling one.
C25_CorrelationIdPerThread ==
    [][LET t == llast'.thread
       IN  /\ \A o \in LogThreads \ {t} : corr'[LocalSlot(o)] = Seen(o)
           /\ llast'.op = "get_correlation_id" =>
                  /\ llast'.ret = corr'[LocalSlot(t)]
                  /\ Seen(t) # "absent" => corr'[LocalSlot(t)] = Seen(t)
                  /\ Seen(t) = "absent" => corr'[LocalSlot(t)] \in Uuid4
           /\ llast'.op = "set_correlation_id" =>
                  IF llast'.arg \in {"None", ""}
                  THEN corr'[LocalSlot(t)] \in Uuid4
                  ELSE corr'[LocalSlot(t)] = llast'.arg
           /\ llast'.op = "clear_correlation_id" => corr'[LocalSlot(t)] = "absent"]_vars

\* thread t1 was handed its own ID x by get_correlation_id after thread t2
\* had been given the ID y
C25_Witness ==
    /\ llast.thread = "t1"
    /\ llast.op = "get_correlation_id"
    /\ llast.ret = "x"
    /\ Seen("t2") = "y"

(***************************************************************************)
(* Properties of model_inference.py (checked under InfSpec)                *)
(***************************************************************************)
\* the model row m is active and not soft-deleted
Servable(m) == models[m].is_active /\ models[m].deleted_at = "None"

\* the row r did not exist before the step and exists after it
Created(r) == ~requests[r].present /\ requests'[r].present

\* C26: Inference request lifecycle: a request starts with status PENDING
\* and the id of a model that is active; the status of every request is
\* PENDING, SUCCESS or FAILED; process_inference_request with a non-empty
\* error_message sets FAILED and stores the message, leaving output_data as
\* it was, and otherwise sets SUCCESS and stores output_data.
C26_RequestLifecycle ==
    [][/\ \A r \in RequestIds :
             /\ requests'[r].present =>
                    requests'[r].status \in {"PENDING", "SUCCESS", "FAILED"}
             /\ Created(r) =>
                    /\ ilast'.op \in {"create_inference_request", "batch_inference"}
                    /\ requests'[r].status = "PENDING"
                    /\ requests'[r].model_id \in ModelIds
                    /\ Servable(requests'[r].model_id)
                    /\ models[requests'[r].model_id].model_name = ilast'.name
       /\ (ilast'.op = "process_inference_request" /\ ilast'.exc = "") =>
              LET before == requests[ilast'.request_id]
                  after == requests'[ilast'.request_id]
              IN  IF ilast'.error_message \notin {"None", ""}
                  THEN /\ after.status = "FAILED"
                       /\ after.error_message = ilast'.error_message
                       /\ after.output_data = before.output_data
                  ELSE /\ after.status = "SUCCESS"
                       /\ after.output_data = ilast'.output_data]_vars

\* a request that had succeeded was processed again with an error message:
\* it is FAILED and still has its output_data
C26_Witness ==
    /\ ilast.op = "process_inference_request"
    /\ ilast.exc = ""
    /\ ilast.error_message = "error"
    /\ requests[ilast.request_id].status = "FAILED"
    /\ requests[ilast.request_id].output_data = "out"

C28_CreatedAgainstActiveModel ==
    [][/\ ilast'.op \in {"create_inference_request", "batch_inference"} =>
              IF \E m \in ModelIds : Servable(m) /\ models[m].model_name = ilast'.name
              THEN /\ ilast'.exc = ""
                   /\ ilast'.commits = 1
                   /\ Len(ilast'.ret) = Len(ilast'.inputs)
                   /\ \A i, j \in 1..Len(ilast'.ret) :
                          i # j => ilast'.ret[i] # ilast'.ret[j]
                   /\ \A i \in 1..Len(ilast'.ret) :
                          /\ Created(ilast'.ret[i])
                          /\ requests'[ilast'.ret[i]].status = "PENDING"
                          /\ requests'[ilast'.ret[i]].input_data = ilast'.inputs[i]
                          /\ Servable(requests'[ilast'.ret[i]].model_id)
                   /\ \A r \in RequestIds :
                          (\A i \in 1..Len(ilast'.ret) : ilast'.ret[i] # r) =>
                              requests'[r] = requests[r]
              ELSE /\ ilast'.exc = "ValueError"
                   /\ requests' = requests
       /\ ilast'.op = "process_inference_request" =>
              IF \/ ilast'.request_id \notin RequestIds
                 \/ ~requests[ilast'.request_id].present
                 \/ requests[ilast'.request_id].deleted_at # "None"
              THEN /\ ilast'.exc = "ValueError"
                   /\ requests' = requests
              ELSE ilast'.exc = ""]_vars

\* a batch of two inputs has added two requests in the order of the inputs
C28_Witness ==
    /\ ilast.op = "batch_inference"
    /\ ilast.inputs = <<"in-2", "in-1">>
    /\ Len(ilast.ret) = 2
    /\ requests[ilast.ret[1]].input_data = "in-2"
    /\ requests[ilast.ret[2]].input_data = "in-1"
    /\ requests[ilast.ret[1]].status = "PENDING"

(***************************************************************************)
(* Properties of data_pipeline.py (checked under PipeSpec)                 *)
(***************************************************************************)
\* the frame satisfies the rules of the schema
Conforms(schema, data) ==
    \A c \in Columns :
        \/ schema[c] = "none"
        \/ /\ data[c] # "absent"
           /\ schema[c] = "numeric" => data[c] = "number"
           /\ schema[c] = "categorical" => data[c] = "category"

\* the frame after the feature engineering of transform
Engineered(data) ==
    [c \in Columns |-> IF data[c] = "absent" THEN "absent" ELSE "number"]

\* the stage of the current run at which something goes wrong ("none": at
\* no stage), from what the call was given
FailingStage ==
    IF pipe.source.kind # "csv" THEN "extract"
    ELSE IF ~pipe.pandas_ok THEN "transform"
    ELSE IF ~Conforms(pipe.schema, Engineered(pipe.source.frame)) THEN "validate"
    ELSE IF ~pipe.dest_ok THEN "load"
    ELSE "none"

\* C29: run_pipeline runs its stages in the order extract, transform,
\* validate, load and stops at the first stage that fails: the destination
\* is written only after extract, transform and validate have succeeded,
\* and the failure of any stage reaches the caller as a RuntimeError with
\* the message 'Data pipeline execution failed.'.
C29_StagesInOrder ==
    LET Stages == <<"extract", "transform", "validate", "load">>
    IN  /\ Len(pipe.trace) <= Len(Stages)
        /\ \A i \in 1..Len(pipe.trace) : pipe.trace[i] = Stages[i]
        /\ \A i \in 1..Len(pipe.trace) :
               FailingStage = Stages[i] => Len(pipe.trace) = i
        /\ pipe.wrote =>
               /\ pipe.trace = Stages
               /\ FailingStage = "none"
               /\ pipe.dest = Engineered(pipe.source.frame)
        /\ pipe.pc = "returned" =>
               IF FailingStage = "none"
               THEN /\ pipe.exc = ""
                    /\ pipe.wrote
               ELSE /\ pipe.exc = "RuntimeError"
                    /\ pipe.msg = ExecutionFailed
                    /\ pipe.trace[Len(pipe.trace)] = FailingStage
                    /\ ~pipe.wrote
                    /\ pipe.dest = NoData

\* a run whose data did not pass validate has returned: load was not
\* entered, the caller got the RuntimeError
C29_Witness ==
    /\ pipe.pc = "returned"
    /\ pipe.trace = <<"extract", "transform", "validate">>
    /\ pipe.inner = "DataValidationException"
    /\ pipe.exc = "RuntimeError"
    /\ pipe.dest_ok

(***************************************************************************)
(* Properties of cli/main.py (checked under CliSpec)                       *)
(***************************************************************************)
\* the path does not exist or cannot be read
Unusable(state) == state \in {"missing", "unreadable"}

\* the handler has done ev (with any argument)
Did(ev) == \E i \in 1..Len(cli.events) : cli.events[i].ev = ev

\* C30: The command handlers validate before they act: log_operation and
\* the progress output run only after every file path of the command has
\* passed validate_file_path (evaluate_model checks model_file before
\* test_data); if a path does not exist or is not readable the handler
\* logs the error and exits the process with the code 422 of
\* ValidationError, without logging the operation.
C30_ValidateBeforeActing ==
    LET arity == IF cli.command = "evaluate" THEN 2 ELSE 1
    IN  /\ \A i \in 1..Len(cli.events) :
               cli.events[i].ev \in {"log_operation", "print"} =>
                   /\ i > arity
                   /\ \A p \in 1..arity :
                          /\ ~Unusable(cli.files[p])
                          /\ cli.events[p].ev = "validate_file_path"
        /\ \A i \in 1..Len(cli.events) :
               cli.events[i].ev = "validate_file_path" =>
                   cli.events[i].arg =
                       CASE cli.command = "preprocess" -> "input_file"
                         [] cli.command = "train" -> "training_data"
                         [] OTHER -> IF i = 1 THEN "model_file" ELSE "test_data"
        /\ cli.pc \in {"returned", "exited"} =>
               IF \E p \in 1..arity : Unusable(cli.files[p])
               THEN /\ cli.pc = "exited"
                    /\ cli.exit = 422
                    /\ cli.events[Len(cli.events)].ev = "logging.error"
                    /\ ~Did("log_operation")
                    /\ ~Did("print")
               ELSE /\ cli.pc = "returned"
                    /\ cli.exit = 0
                    /\ Did("log_operation")

\* evaluate with a readable model file and test data that cannot be read
\* has exited with 422 after checking both
C30_Witness ==
    /\ cli.command = "evaluate"
    /\ cli.pc = "exited"
    /\ cli.files = <<"readable", "unreadable">>
    /\ cli.exit = 422
    /\ cli.events = <<Event("validate_file_path", "model_file"),
                      Event("validate_file_path", "test_data"),
                      Event("logging.error", "evaluate")>>

====
